---- MODULE Spec2Model ----
(***************************************************************************)
(* A model of src/mod.ts: the Logger class (a bounded in-memory log buffer *)
(* with a formatter, a console mirror and a "log" event).                  *)
(*                                                                         *)
(* Strings are sequences of one-character strings, so that concatenation,  *)
(* joining and prefix tests are computed and not assumed.  An optional     *)
(* value (a `?:` field or parameter) is the empty tuple when it is         *)
(* undefined and a one-element tuple holding the value otherwise.          *)
(***************************************************************************)
EXTENDS Integers, Sequences, FiniteSets, TLC

\* ------------------------------------------------------------------ bounds
\* Record-creation calls in one run of the buffer specification.
MaxCalls == 3
\* Distance the clock may advance, in milliseconds.
MaxClock == 1

\* Record-creation calls in one run of the read specification.
MaxReadCalls == 2
\* Array references the caller holds at once.
MaxHeld == 1
\* Length to which the caller grows an array it holds.
MaxArrayLen == 1

\* Record-creation calls in one run of the emission specification.
MaxEmitCalls == 3
\* Callbacks registered on the "log" event.
MaxListeners == 2

\* Record-creation calls in one run of the format specification.
MaxFormatCalls == 2

\* Record-creation calls in one run of the long-run specification: enough to
\* pass the default limit.
MaxLongCalls == 503

\* ------------------------------------------------------- optional values
Absent == <<>>
Given(v) == <<v>>
IsGiven(o) == Len(o) = 1
Value(o) == o[1]

\* ----------------------------------------------------------------- LogType
Default == 0
Info == 1
Warn == 2
Error == 3
LogTypes == {Default, Info, Warn, Error}

\* LogType[t]: the reverse mapping of the numeric enum, the member's name.
LogTypeName(t) ==
    CASE t = Default -> <<"D", "e", "f", "a", "u", "l", "t">>
      [] t = Info -> <<"I", "n", "f", "o">>
      [] t = Warn -> <<"W", "a", "r", "n">>
      [] t = Error -> <<"E", "r", "r", "o", "r">>

\* String.prototype.toUpperCase, on the letters the enum names use.
UpperChar(c) ==
    CASE c = "a" -> "A" [] c = "e" -> "E" [] c = "f" -> "F" [] c = "l" -> "L"
      [] c = "n" -> "N" [] c = "o" -> "O" [] c = "r" -> "R" [] c = "t" -> "T"
      [] c = "u" -> "U" [] OTHER -> c
ToUpperCase(s) == [i \in 1..Len(s) |-> UpperChar(s[i])]

\* ------------------------------------------------------------------ chalk
\* A chalk style wraps the text between an opening and a closing escape code.
Style(open, t) == <<open>> \o t \o <<"ESC[39m">>
ChalkBlue(t) == Style("ESC[34m", t)
ChalkYellowBright(t) == Style("ESC[93m", t)
ChalkRed(t) == Style("ESC[31m", t)
ChalkYellow(t) == Style("ESC[33m", t)
ChalkCyan(t) == Style("ESC[36m", t)

\* The severity colors with yellow for warnings, the timestamp's color.
ColorizeTypeWarnYellow(t, s) ==
    CASE t = Default -> s
      [] t = Info -> ChalkBlue(s)
      [] t = Warn -> ChalkYellow(s)
      [] t = Error -> ChalkRed(s)
ColorizeType(t, s) ==
    CASE t = Default -> s
      [] t = Info -> ChalkBlue(s)
      [] t = Warn -> ChalkYellowBright(s)
      [] t = Error -> ChalkRed(s)
ColorizeTimestamp(s) == ChalkYellow(s)
ColorizeFrom(s) == ChalkCyan(s)

\* ------------------------------------------------------------------ state
VARIABLES
    options,    \* the constructor's argument: Absent or Given(LoggerOptions)
    heap,       \* the arrays of LogObject alive in the program, by reference
    now,        \* the system clock: milliseconds elapsed in the current second
    console,    \* the lines console.log has written, oldest first
    created,    \* history: every readyLog that createLog built, oldest first
    logarrD,    \* the logarr of a second Logger, constructed without
                \* maxStackSize, that is sent the same calls
    listeners,  \* the callbacks registered on the "log" event, in order
    received,   \* received[i]: the records listeners[i] was called with
    notes,      \* what each callback found when it was called, in call order:
                \* the record, the buffer and the console as they were then
    held,       \* the array references the caller got from the read operations
    last        \* the last operation: its name, the string it returned (Absent
                \* when it returned none) and the held reference it used (0: none)

vars == <<options, heap, now, console, created, logarrD, listeners, received,
          notes, held, last>>

\* The reference held by the private field this.logarr.
LogarrRef == 1
logarr == heap[LogarrRef]

\* --------------------------------------------------------------- options
\* this.options?.maxStackSize and this.options?.colored
OptMaxStackSize(o) == IF IsGiven(o) THEN Value(o).maxStackSize ELSE Absent
OptColored(o) == IF IsGiven(o) THEN Value(o).colored ELSE Absent
\* JavaScript truthiness of an optional boolean, number and string
\* (TruthyStrDefined: the test `!== undefined` in its place).
TruthyBool(o) == IsGiven(o) /\ Value(o)
TruthyNum(o) == IsGiven(o) /\ Value(o) # 0
TruthyStrDefined(o) == IsGiven(o)
TruthyStr(o) == IsGiven(o) /\ Len(Value(o)) > 0

DefaultStackSize == 500
\* The limit with ?? in place of ||: a configured zero is kept.
StackLimitNullish(o) ==
    IF IsGiven(OptMaxStackSize(o)) THEN Value(OptMaxStackSize(o))
    ELSE DefaultStackSize
\* this.options?.maxStackSize || 500
StackLimit(o) ==
    IF TruthyNum(OptMaxStackSize(o)) THEN Value(OptMaxStackSize(o))
    ELSE DefaultStackSize

\* ------------------------------------------------------------ timestamp
RECURSIVE Digits(_)
\* Number to decimal string, as a template literal converts it.
Digits(n) ==
    IF n < 10
    THEN <<CASE n = 0 -> "0" [] n = 1 -> "1" [] n = 2 -> "2" [] n = 3 -> "3"
             [] n = 4 -> "4" [] n = 5 -> "5" [] n = 6 -> "6" [] n = 7 -> "7"
             [] n = 8 -> "8" [] n = 9 -> "9">>
    ELSE Digits(n \div 10) \o Digits(n % 10)

\* date.toLocaleString(OSLocale): the date and time to the second.  The
\* model's clock stays inside one second, so the rendering is one token.
ToLocaleString(d) == <<"D">>
GetMilliseconds(d) == d
Timestamp(d) == ToLocaleString(d) \o <<".">> \o Digits(GetMilliseconds(d))

\* ------------------------------------------------------------ prepareLog
\* The format of the earlier release, `[ts] ${from ? "(" + from + ")" : ""}: msg`:
\* the blank after the bracket is written with or without a source.
prepareLogEarlier(o, type, msg, from, d) ==
    LET timestamp == Timestamp(d)
        label == IF type # Default
                 THEN ToUpperCase(LogTypeName(type)) \o <<":", " ">> ELSE <<>>
        source == IF TruthyStr(from) THEN <<"(">> \o Value(from) \o <<")">> ELSE <<>>
    IN [msg |-> msg, from |-> from, type |-> type, timestamp |-> timestamp,
        log |-> label \o <<"[">> \o timestamp \o <<"]", " ">> \o source
                    \o <<":", " ">> \o msg]

prepareLog(o, type, msg, from, d) ==
    LET timestamp == Timestamp(d)
        name == ToUpperCase(LogTypeName(type))
        b1 == IF type # Default
              THEN (IF TruthyBool(OptColored(o)) THEN ColorizeType(type, name)
                    ELSE name) \o <<":", " ">>
              ELSE <<>>
        b2 == b1 \o (IF TruthyBool(OptColored(o))
                     THEN <<"[">> \o ColorizeTimestamp(timestamp) \o <<"]">>
                     ELSE <<"[">> \o timestamp \o <<"]">>)
        b3 == b2 \o (IF TruthyStr(from)
                     THEN <<" ">> \o
                          (IF TruthyBool(OptColored(o))
                           THEN <<"(">> \o ColorizeFrom(Value(from)) \o <<")", ":", " ">>
                           ELSE <<"(">> \o Value(from) \o <<")", ":", " ">>)
                     ELSE <<":", " ">>)
        b4 == b3 \o msg
    IN [msg |-> msg, from |-> from, type |-> type, log |-> b4,
        timestamp |-> timestamp]

\* ------------------------------------------------------------- createLog
\* createLog with the push before the test and the shift.
RetainPushFirst(o, arr, readyLog) ==
    LET pushed == Append(arr, readyLog)
    IN IF Len(pushed) > StackLimit(o) THEN Tail(pushed) ELSE pushed
\* createLog with the limit tested one record late.
RetainLate(o, arr, readyLog) ==
    LET kept == IF Len(arr) > StackLimit(o) + 1
                THEN (IF Len(arr) = 0 THEN arr ELSE Tail(arr))
                ELSE arr
    IN Append(kept, readyLog)
\* createLog filling one LogObject over again and pushing that same object:
\* every element of the array then shows the fields of the newest record.
RetainOneObject(o, arr, readyLog) ==
    LET kept == IF Len(arr) > StackLimit(o)
                THEN (IF Len(arr) = 0 THEN arr ELSE Tail(arr))
                ELSE arr
    IN [i \in 1..(Len(kept) + 1) |-> readyLog]
\* createLog with pop() in place of shift(): the newest record goes.
RetainDropNewest(o, arr, readyLog) ==
    LET kept == IF Len(arr) > StackLimit(o)
                THEN (IF Len(arr) = 0 THEN arr ELSE SubSeq(arr, 1, Len(arr) - 1))
                ELSE arr
    IN Append(kept, readyLog)
\* The shift-then-push of createLog on an array arr.
Retain(o, arr, readyLog) ==
    LET kept == IF Len(arr) > StackLimit(o)
                THEN (IF Len(arr) = 0 THEN arr ELSE Tail(arr))
                ELSE arr
    IN Append(kept, readyLog)

\* The options of the second Logger: the same, without maxStackSize.
WithoutMaxStackSize(o) ==
    IF IsGiven(o) THEN Given([Value(o) EXCEPT !.maxStackSize = Absent]) ELSE o

\* EventEmitter.emit: the callbacks are called in registration order, in a
\* plain loop inside an async function; a callback that throws ends the loop
\* and rejects the promise emit returns, which createLog does not await.
RECURSIVE EmitFrom(_, _, _, _)
EmitFrom(i, ls, rcv, readyLog) ==
    IF i > Len(ls) THEN rcv
    ELSE LET called == [rcv EXCEPT ![i] = Append(@, readyLog)]
         IN IF ls[i].throws THEN called
            ELSE EmitFrom(i + 1, ls, called, readyLog)
\* An emitter that drops the event once the one before it was delivered.
EmitFirstOnly(ls, rcv, readyLog) ==
    IF \E i \in 1..Len(rcv) : Len(rcv[i]) > 0 THEN rcv
    ELSE EmitFrom(1, ls, rcv, readyLog)
Emit(ls, rcv, readyLog) == EmitFrom(1, ls, rcv, readyLog)

RECURSIVE CalledFrom(_, _)
\* The callbacks that one emit calls, in the order it calls them.
CalledFrom(i, ls) ==
    IF i > Len(ls) THEN <<>>
    ELSE <<i>> \o (IF ls[i].throws THEN <<>> ELSE CalledFrom(i + 1, ls))

\* A callback reads the logger when it is called: snapshot(false) and the
\* console as they are during the emit of the call-th record.
Seen(ls, call, readyLog, arr, out) ==
    LET called == CalledFrom(1, ls)
    IN [k \in 1..Len(called) |->
           [listener |-> called[k], call |-> call, rec |-> readyLog,
            buffer |-> arr, out |-> out]]

\* A console mirror that leaves out the lines without a severity label.
ConsoleLogLabelled(out, line) == IF line[1] = "[" THEN out ELSE Append(out, line)
\* console.log(line)
ConsoleLog(out, line) == Append(out, line)

Did(op, val, h) == [op |-> op, val |-> val, h |-> h]

\* createLog with the emit moved before the push and the console write.
createLogEmitFirst(op, type, msg, from) ==
    LET readyLog == prepareLog(options, type, msg, from, now)
    IN /\ received' = Emit(listeners, received, readyLog)
       /\ notes' = notes \o Seen(listeners, Len(created) + 1, readyLog, logarr,
                                 console)
       /\ heap' = [heap EXCEPT ![LogarrRef] = Retain(options, logarr, readyLog)]
       /\ console' = ConsoleLog(console, readyLog.log)
       /\ created' = Append(created, readyLog)
       /\ last' = Did(op, Absent, 0)
       /\ logarrD' = Retain(WithoutMaxStackSize(options), logarrD,
                            prepareLog(WithoutMaxStackSize(options), type, msg, from, now))
       /\ UNCHANGED <<options, now, listeners, held>>

createLog(op, type, msg, from) ==
    LET readyLog == prepareLog(options, type, msg, from, now)
        pushed == Retain(options, logarr, readyLog)
        written == ConsoleLog(console, readyLog.log)
    IN /\ heap' = [heap EXCEPT ![LogarrRef] = pushed]
       /\ console' = written
       /\ received' = Emit(listeners, received, readyLog)
       /\ notes' = notes \o Seen(listeners, Len(created) + 1, readyLog, pushed,
                                 written)
       /\ created' = Append(created, readyLog)
       /\ last' = Did(op, Absent, 0)
       /\ logarrD' = Retain(WithoutMaxStackSize(options), logarrD,
                            prepareLog(WithoutMaxStackSize(options), type, msg, from, now))
       /\ UNCHANGED <<options, now, listeners, held>>

Log(msg, from) == createLog("log", Default, msg, from)
ErrorLog(msg, from) == createLog("error", Error, msg, from)
InfoLog(msg, from) == createLog("info", Info, msg, from)
\* warn() made by copying info() and leaving its LogType.
WarnLogAsInfo(msg, from) == createLog("warn", Info, msg, from)
WarnLog(msg, from) == createLog("warn", Warn, msg, from)
CreateOps == {"log", "error", "info", "warn"}

\* The clock advances between two operations.
Tick ==
    /\ now < MaxClock
    /\ now' = now + 1
    /\ UNCHANGED <<options, heap, console, created, logarrD, listeners,
                   received, notes, held, last>>

\* ------------------------------------------------------ read operations
RECURSIVE JoinFrom(_, _, _)
\* Array.prototype.join(sep): the elements from index i on, each after the
\* first preceded by sep.
JoinFrom(i, strs, sep) ==
    IF i > Len(strs) THEN <<>>
    ELSE (IF i > 1 THEN sep ELSE <<>>) \o strs[i] \o JoinFrom(i + 1, strs, sep)
Join(strs, sep) == JoinFrom(1, strs, sep)

RECURSIVE ForEachPush(_, _, _)
\* this.logarr.forEach((log) => { logs.push(log.log) })
ForEachPush(i, arr, logs) ==
    IF i > Len(arr) THEN logs
    ELSE ForEachPush(i + 1, arr, Append(logs, arr[i].log))

\* generate() with join() left at its default separator.
generateCommaJoined(arr) == Join(ForEachPush(1, arr, <<>>), <<",">>)
\* generate()
generate(arr) == Join(ForEachPush(1, arr, <<>>), <<"\n">>)

\* snapshot(true): this.logarr.map((l) => l.log).join("\n")
snapshot_true(arr) == Join([i \in 1..Len(arr) |-> arr[i].log], <<"\n">>)

\* snapshot(false) taking the elements with splice(0), which empties logarr.
snapshot_falseSpliced(hp) ==
    [heap |-> Append([hp EXCEPT ![LogarrRef] = <<>>], hp[LogarrRef]),
     ref |-> Len(hp) + 1]
\* snapshot(false) returning the array itself.
snapshot_falseAliased(hp) == [heap |-> hp, ref |-> LogarrRef]
\* snapshot(false) and snapshot(): [...this.logarr], a new array.  The result
\* is the heap with the new array in it and the reference returned.
snapshot_false(hp) == [heap |-> Append(hp, hp[LogarrRef]), ref |-> Len(hp) + 1]

\* generate_array() returning a copy.
generate_arrayCopied(hp) == [heap |-> Append(hp, hp[LogarrRef]), ref |-> Len(hp) + 1]
\* generate_array(): return this.logarr, the reference itself.
generate_array(hp) == [heap |-> hp, ref |-> LogarrRef]

\* ----------------------------------------------- the buffer specification
StackSizes == {Absent, Given(-1), Given(0), Given(1), Given(2)}
OptionsSet ==
    {Absent} \cup
    {Given([maxStackSize |-> m, colored |-> c]) :
        m \in StackSizes, c \in {Absent, Given(TRUE)}}

Init ==
    /\ options \in OptionsSet
    /\ heap = <<<<>>>>
    /\ now = 0
    /\ console = <<>>
    /\ created = <<>>
    /\ logarrD = <<>>
    /\ listeners = <<>>
    /\ received = <<>>
    /\ notes = <<>>
    /\ held = <<>>
    /\ last = Did("new", Absent, 0)

Msgs == {<<"a">>}
Froms == {Absent, Given(<<"X">>)}

Next ==
    \/ /\ Len(created) < MaxCalls
       /\ \E msg \in Msgs, from \in Froms :
            \/ Log(msg, from)
            \/ ErrorLog(msg, from)
            \/ InfoLog(msg, from)
            \/ WarnLog(msg, from)
    \/ Tick

Spec == Init /\ [][Next]_vars
\* ------------------------------------------------- the read specification
\* The read operations as steps of the program, and a caller that changes
\* the arrays it was handed.
Generate ==
    /\ last' = Did("generate", Given(generate(logarr)), 0)
    /\ UNCHANGED <<options, heap, now, console, created, logarrD, listeners,
                   received, notes, held>>

SnapshotTrue ==
    /\ last' = Did("snapshot_true", Given(snapshot_true(logarr)), 0)
    /\ UNCHANGED <<options, heap, now, console, created, logarrD, listeners,
                   received, notes, held>>

SnapshotFalse ==
    /\ Len(held) < MaxHeld
    /\ LET r == snapshot_false(heap)
       IN /\ heap' = r.heap
          /\ held' = Append(held, [src |-> "snapshot", ref |-> r.ref])
    /\ last' = Did("snapshot_false", Absent, Len(held) + 1)
    /\ UNCHANGED <<options, now, console, created, logarrD, listeners, received,
                   notes>>

GenerateArray ==
    /\ Len(held) < MaxHeld
    /\ LET r == generate_array(heap)
       IN /\ heap' = r.heap
          /\ held' = Append(held, [src |-> "generate_array", ref |-> r.ref])
    /\ last' = Did("generate_array", Absent, Len(held) + 1)
    /\ UNCHANGED <<options, now, console, created, logarrD, listeners, received,
                   notes>>

\* A LogObject of the caller's own making.
Foreign ==
    [msg |-> <<"z">>, from |-> Absent, type |-> Default, log |-> <<"z">>,
     timestamp |-> <<"z">>]

Reverse(seq) == [i \in 1..Len(seq) |-> seq[Len(seq) + 1 - i]]

\* The caller changes, in place, the array behind the h-th reference it holds.
CallerMutates(op, h, arr) ==
    /\ heap' = [heap EXCEPT ![held[h].ref] = arr]
    /\ last' = Did(op, Absent, h)
    /\ UNCHANGED <<options, now, console, created, logarrD, listeners, received,
                   notes, held>>

CallerPush(h) ==
    /\ Len(heap[held[h].ref]) < MaxArrayLen
    /\ CallerMutates("caller_push", h, Append(heap[held[h].ref], Foreign))

CallerPop(h) ==
    /\ Len(heap[held[h].ref]) > 0
    /\ CallerMutates("caller_pop", h,
                     SubSeq(heap[held[h].ref], 1, Len(heap[held[h].ref]) - 1))

CallerReverse(h) ==
    /\ Reverse(heap[held[h].ref]) # heap[held[h].ref]
    /\ CallerMutates("caller_reverse", h, Reverse(heap[held[h].ref]))

MutateOps == {"caller_push", "caller_pop", "caller_reverse"}

InitRead ==
    /\ Init
    /\ options = Given([maxStackSize |-> Given(1), colored |-> Absent])

NextRead ==
    \/ /\ Len(created) < MaxReadCalls
       /\ \/ Log(<<"a">>, Absent)
          \/ ErrorLog(<<"a">>, Absent)
          \/ InfoLog(<<"a">>, Given(<<"X">>))
          \/ WarnLog(<<"a">>, Absent)
    \/ Generate
    \/ SnapshotTrue
    \/ SnapshotFalse
    \/ GenerateArray
    \/ \E h \in 1..Len(held) :
          \/ CallerPush(h)
          \/ CallerPop(h)
          \/ CallerReverse(h)

SpecRead == InitRead /\ [][NextRead]_vars

\* --------------------------------------------- the emission specification
\* logger.on("log", callback): the callback joins the end of the list.  A
\* callback either returns or throws each time it is called; since is the
\* number of records created before it was registered (history).
On(throws) ==
    /\ Len(listeners) < MaxListeners
    /\ listeners' = Append(listeners, [throws |-> throws, since |-> Len(created)])
    /\ received' = Append(received, <<>>)
    /\ last' = Did("on", Absent, 0)
    /\ UNCHANGED <<options, heap, now, console, created, logarrD, notes, held>>

InitEmit ==
    /\ Init
    /\ options = Given([maxStackSize |-> Given(1), colored |-> Absent])

NextEmit ==
    \/ /\ Len(created) < MaxEmitCalls
       /\ \/ Log(<<"a">>, Absent)
          \/ ErrorLog(<<"a">>, Absent)
          \/ InfoLog(<<"a">>, Given(<<"X">>))
          \/ WarnLog(<<"a">>, Absent)
    \/ \E throws \in BOOLEAN : On(throws)
    \/ Tick

SpecEmit == InitEmit /\ [][NextEmit]_vars

\* ----------------------------------------------- the format specification
\* Few calls, with every kind of message and source and every colored setting.
FormatMsgs == {<<>>, <<"a">>}
FormatFroms == {Absent, Given(<<>>), Given(<<"X">>)}

InitFormat ==
    /\ Init
    /\ options \in {Absent} \cup
           {Given([maxStackSize |-> Absent, colored |-> c]) :
               c \in {Absent, Given(FALSE), Given(TRUE)}}

NextFormat ==
    \/ /\ Len(created) < MaxFormatCalls
       /\ \E msg \in FormatMsgs, from \in FormatFroms :
            \/ Log(msg, from)
            \/ ErrorLog(msg, from)
            \/ InfoLog(msg, from)
            \/ WarnLog(msg, from)
    \/ Tick

SpecFormat == InitFormat /\ [][NextFormat]_vars

\* --------------------------------------------- the long-run specification
\* One call repeated until the buffer is past the default limit.
InitLong ==
    /\ Init
    /\ options \in {Absent} \cup
           {Given([maxStackSize |-> m, colored |-> Absent]) :
               m \in {Given(0), Given(1), Given(2)}}

NextLong ==
    /\ Len(created) < MaxLongCalls
    /\ Log(<<"a">>, Absent)

SpecLong == InitLong /\ [][NextLong]_vars

\* -------------------------------------- the configuration specification
\* Every kind of maxStackSize, with callbacks registered.
InitConfig ==
    /\ Init
    /\ options \in {Absent} \cup
           {Given([maxStackSize |-> m, colored |-> Absent]) :
               m \in {Given(-1), Given(0), Given(1)}}

NextConfig ==
    \/ /\ Len(created) < MaxEmitCalls
       /\ \/ Log(<<"a">>, Absent)
          \/ ErrorLog(<<"a">>, Absent)
          \/ InfoLog(<<"a">>, Given(<<"X">>))
          \/ WarnLog(<<"a">>, Absent)
    \/ \E throws \in BOOLEAN : On(throws)

SpecConfig == InitConfig /\ [][NextConfig]_vars

\* ---------------------------------------------- the observer specification
\* The read operations between record-creation calls, with callbacks
\* registered and a caller that leaves the arrays it is handed alone.
InitObserve ==
    /\ Init
    /\ options = Given([maxStackSize |-> Given(1), colored |-> Absent])

NextObserve ==
    \/ /\ Len(created) < MaxReadCalls
       /\ \/ Log(<<"a">>, Absent)
          \/ ErrorLog(<<"a">>, Absent)
          \/ InfoLog(<<"a">>, Given(<<"X">>))
          \/ WarnLog(<<"a">>, Absent)
    \/ Generate
    \/ SnapshotTrue
    \/ SnapshotFalse
    \/ GenerateArray
    \/ \E throws \in BOOLEAN : On(throws)

SpecObserve == InitObserve /\ [][NextObserve]_vars

\* ------------------------------------------------------------ the claims
Min(a, b) == IF a < b THEN a ELSE b
LastN(seq, n) == SubSeq(seq, Len(seq) - n + 1, Len(seq))
Lines(arr) == [i \in 1..Len(arr) |-> arr[i].log]

\* The capacity the documentation promises: maxStackSize when it is a positive
\* number, 500 when none is configured.
HasCapacity ==
    \/ ~IsGiven(OptMaxStackSize(options))
    \/ Value(OptMaxStackSize(options)) > 0
Capacity ==
    IF IsGiven(OptMaxStackSize(options)) THEN Value(OptMaxStackSize(options))
    ELSE DefaultStackSize

\* C1: with a positive maxStackSize C (or none, C = 500), after every
\* record-creation call the buffer holds at most C records.
CapacityInvariant == HasCapacity => Len(logarr) <= Capacity

\* C2: after N record-creation calls on a Logger of capacity C, snapshot(false)
\* has length min(N, C) and holds exactly the records of the most recent
\* min(N, C) calls, in their original order.
MostRecentRetained ==
    HasCapacity =>
        LET snap == snapshot_false(heap)
            n == Min(Len(created), Capacity)
        IN /\ Len(snap.heap[snap.ref]) = n
           /\ snap.heap[snap.ref] = LastN(created, n)

\* C9 as stated: a zero or negative maxStackSize behaves as the default
\* capacity: the buffer equals that of a Logger built without maxStackSize.
NonPositiveIsDefault ==
    (IsGiven(OptMaxStackSize(options)) /\ Value(OptMaxStackSize(options)) <= 0)
        => logarr = logarrD

\* C9, amended: a maxStackSize of zero behaves as the default capacity (the
\* buffer equals that of a Logger built without maxStackSize); a negative
\* maxStackSize does not: the buffer then retains only the most recent record.
ZeroIsDefaultNegativeKeepsOne ==
    /\ OptMaxStackSize(options) = Given(0) => logarr = logarrD
    /\ (IsGiven(OptMaxStackSize(options)) /\ Value(OptMaxStackSize(options)) < 0)
           => logarr = LastN(created, Min(Len(created), 1))
ZeroIsDefaultWitness ==
    /\ OptMaxStackSize(options) = Given(0)
    /\ Len(created) >= 2
    /\ Len(logarr) = Len(created)

\* C10: the console holds one line per record ever created, each equal to that
\* record's formatted line, in creation order, evicted records included.
ConsoleMirror ==
    /\ Len(console) = Len(created)
    /\ \A i \in 1..Len(created) : console[i] = created[i].log
ConsoleMirrorWitness ==
    /\ Len(created) > Len(logarr)
    /\ Len(console) = Len(created)
    /\ \E i, j \in 1..Len(created) : created[i].type # created[j].type
RECURSIVE NewlineJoined(_)
\* The lines, in order, with one newline between two neighbours.
NewlineJoined(ls) ==
    IF Len(ls) = 0 THEN <<>>
    ELSE IF Len(ls) = 1 THEN ls[1]
    ELSE NewlineJoined(SubSeq(ls, 1, Len(ls) - 1)) \o <<"\n">> \o ls[Len(ls)]

\* What the read operations return in the current state and after the step.
ReadsNow == <<generate(logarr), snapshot_true(logarr), logarr>>
ReadsNext == <<generate(logarr'), snapshot_true(logarr'), logarr'>>
HeldFrom(src) == {h \in 1..Len(held) : held[h].src = src}

\* C3: a sequence returned by snapshot(false) is independent of the buffer:
\* the caller changing it changes no later snapshot(false), snapshot(true) or
\* generate() result, and a record-creation call does not change it.
SnapshotIndependent ==
    [][/\ (last'.op \in MutateOps /\ last'.h \in HeldFrom("snapshot"))
            => ReadsNext = ReadsNow
       /\ last'.op \in CreateOps
            => \A h \in HeldFrom("snapshot") :
                   heap'[held[h].ref] = heap[held[h].ref]]_vars
SnapshotIndependentWitness ==
    /\ last.op \in MutateOps
    /\ last.h \in HeldFrom("snapshot")
    /\ Len(logarr) >= 1
    /\ heap[held[last.h].ref] # logarr

\* C4 as stated: generate_array() returns, like snapshot(false), a copy: the
\* caller changing it does not change the buffer, and a record-creation call
\* does not change it.
GenerateArrayIndependent ==
    [][/\ (last'.op \in MutateOps /\ last'.h \in HeldFrom("generate_array"))
            => ReadsNext = ReadsNow
       /\ last'.op \in CreateOps
            => \A h \in HeldFrom("generate_array") :
                   heap'[held[h].ref] = heap[held[h].ref]]_vars

\* C4, amended: generate_array() returns the same records in the same order
\* as snapshot(false) does at that moment, but it returns the buffer itself
\* and no copy: at every later moment the sequence it returned holds exactly
\* what snapshot(false) would return then, whether the caller changed it or
\* the logger did.
GenerateArrayIsBuffer ==
    LET snap == snapshot_false(heap)
    IN \A h \in HeldFrom("generate_array") :
           heap[held[h].ref] = snap.heap[snap.ref]
GenerateArrayIsBufferWitness ==
    /\ HeldFrom("generate_array") # {}
    /\ last.op \in CreateOps
    /\ Len(created) >= 2
    /\ Len(logarr) >= 2

\* C5: snapshot(true) and generate() both return the newline-join, in
\* insertion order, of the formatted lines of the records snapshot(false)
\* returns; the empty string for an empty buffer.
FormattedRoundTrip ==
    LET snap == snapshot_false(heap)
        expected == NewlineJoined(Lines(snap.heap[snap.ref]))
    IN /\ generate(logarr) = expected
       /\ snapshot_true(logarr) = expected
       /\ last.op \in {"generate", "snapshot_true"} => Value(last.val) = expected
       /\ Len(logarr) = 0 => expected = <<>>
FormattedRoundTripWitness ==
    /\ last.op = "generate"
    /\ Len(logarr) >= 2
    /\ logarr[1].log # logarr[2].log
\* The records created since the i-th callback was registered.
CreatedSince(i) == SubSeq(created, listeners[i].since + 1, Len(created))

\* C6: one subscriber registered before the calls receives exactly one
\* notification per record-creation call, in creation order, the i-th carrying
\* the record the i-th call inserted, also when records were evicted.
OneSubscriberReceivesAll ==
    (Len(listeners) = 1 /\ listeners[1].since = 0) => received[1] = created
OneSubscriberWitness ==
    /\ Len(listeners) = 1
    /\ listeners[1].since = 0
    /\ Len(created) > Len(logarr)
    /\ created[1] # created[2]

\* C7: a subscriber that throws keeps no later subscriber from being notified
\* of the record, and the buffer still holds the record as its last element.
FailureIsolation ==
    /\ \A i \in 1..Len(listeners) : received[i] = CreatedSince(i)
    /\ Len(created) > 0 => logarr[Len(logarr)] = created[Len(created)]
IsPrefix(p, str) == Len(p) <= Len(str) /\ SubSeq(str, 1, Len(p)) = p
\* The text of a line after the bracket that closes the timestamp.
AfterBracket(line) ==
    LET close == CHOOSE i \in 1..Len(line) :
                     line[i] = "]" /\ \A j \in 1..(i - 1) : line[j] # "]"
    IN SubSeq(line, close + 1, Len(line))

\* C8 as stated: an empty-string source counts as a source, so the line has
\* " (): " after the timestamp bracket.
EmptySourceShown ==
    \A i \in 1..Len(created) :
        created[i].from = Given(<<>>)
            => IsPrefix(<<" ", "(", ")", ":", " ">>, AfterBracket(created[i].log))

\* C8, amended: an empty-string source is treated as no source: the line has
\* ": " and then the message after the timestamp bracket, while the record
\* keeps the empty string as its source; a call with an empty message or an
\* empty source creates its record like any other.
EmptySourceIsNoSource ==
    /\ \A i \in 1..Len(created) :
           created[i].from = Given(<<>>)
               => AfterBracket(created[i].log) = <<":", " ">> \o created[i].msg
    /\ Len(created) > 0
           => /\ logarr[Len(logarr)] = created[Len(created)]
              /\ last.op \in CreateOps
EmptySourceWitness ==
    /\ Len(created) > 0
    /\ created[Len(created)].from = Given(<<>>)
    /\ created[Len(created)].msg = <<>>
    /\ logarr[Len(logarr)].from = Given(<<>>)
\* ---------------------------------------------------- formatting claims
Colored == TruthyBool(OptColored(options))
UpperName(type) ==
    CASE type = Info -> <<"I", "N", "F", "O">>
      [] type = Warn -> <<"W", "A", "R", "N">>
      [] type = Error -> <<"E", "R", "R", "O", "R">>
      [] type = Default -> <<"D", "E", "F", "A", "U", "L", "T">>
TypeOfOp(op) ==
    CASE op = "log" -> Default [] op = "info" -> Info
      [] op = "warn" -> Warn [] op = "error" -> Error

\* C11: log/info/warn/error create records of severity Default/Info/Warn/
\* Error; without colors the line of an Info, Warn or Error record starts with
\* "INFO: ", "WARN: " or "ERROR: " and then "[", and the line of a Default
\* record starts with "[" and has no severity label.
SeverityPrefix ==
    /\ last.op \in CreateOps => created[Len(created)].type = TypeOfOp(last.op)
    /\ ~Colored =>
           \A i \in 1..Len(created) :
               LET r == created[i]
               IN IF r.type = Default
                  THEN IsPrefix(<<"[">> \o r.timestamp \o <<"]">>, r.log)
                  ELSE IsPrefix(UpperName(r.type) \o <<":", " ", "[">>, r.log)
SeverityPrefixWitness ==
    /\ ~Colored
    /\ Len(created) = 2
    /\ last.op = "warn"
    /\ created[1].type = Default
    /\ created[2].type = Warn

\* The line of a record without colors, written out.
PlainLine(r) ==
    (IF r.type = Default THEN <<>> ELSE UpperName(r.type) \o <<":", " ">>)
    \o <<"[">> \o r.timestamp \o <<"]">>
    \o (IF IsGiven(r.from) /\ Value(r.from) # <<>>
        THEN <<" ", "(">> \o Value(r.from) \o <<")", ":", " ">>
        ELSE <<":", " ">>)
    \o r.msg

\* C12: without colors, a record with a non-empty source s has the line
\* <prefix>[<timestamp>] (s): <message>, a record with no source has
\* <prefix>[<timestamp>]: <message>; message and source are copied as given.
SourcePresence ==
    /\ ~Colored =>
           \A i \in 1..Len(created) :
               LET r == created[i]
               IN /\ r.log = PlainLine(r)
                  /\ (IsGiven(r.from) /\ Value(r.from) # <<>>)
                         => AfterBracket(r.log)
                                = <<" ", "(">> \o Value(r.from) \o <<")", ":", " ">>
                                      \o r.msg
                  /\ ~IsGiven(r.from) => AfterBracket(r.log) = <<":", " ">> \o r.msg
    /\ last.op \in CreateOps =>
           /\ created[Len(created)].msg \in FormatMsgs
           /\ created[Len(created)].from \in FormatFroms
SourcePresenceWitness ==
    /\ ~Colored
    /\ Len(created) = 2
    /\ created[1].from = Given(<<"X">>)
    /\ created[1].msg = <<"a">>
    /\ created[2].from = Absent

EscapeCodes == {"ESC[34m", "ESC[93m", "ESC[31m", "ESC[33m", "ESC[36m", "ESC[39m"}
Decorated(open, t) == <<open>> \o t \o <<"ESC[39m">>
\* The line of a record with colors, written out: blue, bright yellow or red
\* around the severity name, yellow around the timestamp, cyan around the
\* source, and nothing around the brackets, the separators and the message.
ColoredLine(r) ==
    (CASE r.type = Default -> <<>>
       [] r.type = Info -> Decorated("ESC[34m", UpperName(Info)) \o <<":", " ">>
       [] r.type = Warn -> Decorated("ESC[93m", UpperName(Warn)) \o <<":", " ">>
       [] r.type = Error -> Decorated("ESC[31m", UpperName(Error)) \o <<":", " ">>)
    \o <<"[">> \o Decorated("ESC[33m", r.timestamp) \o <<"]">>
    \o (IF IsGiven(r.from) /\ Value(r.from) # <<>>
        THEN <<" ", "(">> \o Decorated("ESC[36m", Value(r.from)) \o <<")", ":", " ">>
        ELSE <<":", " ">>)
    \o r.msg

\* C13: with colored false or unset no line holds a decoration, whatever the
\* severity and the source; with colored true the severity name (Info blue,
\* Warn bright yellow, Error red, Default none), the timestamp (yellow) and
\* the source (cyan) are decorated, and nothing else is.
ColorOnlyWhenColored ==
    \A i \in 1..Len(created) :
        LET r == created[i]
        IN IF Colored
           THEN r.log = ColoredLine(r)
           ELSE \A k \in 1..Len(r.log) : r.log[k] \notin EscapeCodes
ColorOnlyWhenColoredWitness ==
    /\ Colored
    /\ Len(created) = 2
    /\ created[1].type = Warn
    /\ created[1].from = Given(<<"X">>)
    /\ created[2].type = Default
    /\ created[2].from = Absent
\* ------------------------------------------------------ ordering claims
\* C14: within one record-creation call the record is appended first, its
\* line is written to the console next, and the subscribers are notified
\* last, in subscription order: a callback finds the record as the last
\* element of a snapshot and its line as the last line of the console.
AppendWriteThenNotify ==
    /\ \A k \in 1..Len(notes) :
           LET n == notes[k]
           IN /\ n.rec = created[n.call]
              /\ Len(n.buffer) > 0
              /\ n.buffer[Len(n.buffer)] = n.rec
              /\ Len(n.out) = n.call
              /\ n.out[Len(n.out)] = n.rec.log
    /\ \A j, k \in 1..Len(notes) :
           j < k => \/ notes[j].call < notes[k].call
                    \/ /\ notes[j].call = notes[k].call
                       /\ notes[j].listener < notes[k].listener
AppendWriteThenNotifyWitness ==
    /\ Len(notes) >= 3
    /\ notes[Len(notes)].call = 2
    /\ notes[Len(notes)].listener = 2
    /\ notes[Len(notes) - 1].call = 2
    /\ notes[Len(notes) - 1].listener = 1
    /\ Len(notes[Len(notes)].out) = 2
\* C15: a record-creation call removes at most one record, the oldest one,
\* and only when the buffer is over capacity at the call; the records that
\* stay keep their order.
FifoEviction ==
    [][(last'.op \in CreateOps /\ created' # created) =>
           LET r == created'[Len(created')]
           IN \/ logarr' = Append(logarr, r)
              \/ /\ Len(logarr) > Capacity
                 /\ logarr' = Append(Tail(logarr), r)]_vars
FifoEvictionWitness ==
    /\ OptMaxStackSize(options) = Given(1)
    /\ Len(created) = 3
    /\ Len(logarr) = 2
    /\ logarr = LastN(created, 2)
    /\ created[1] # created[2]
\* C16: a subscriber registered after k records were created is notified of
\* none of those k records, and exactly once of each record created after
\* its registration, and of no other.
NoReplayExactlyOnce ==
    \A i \in 1..Len(listeners) :
        /\ Len(received[i]) = Len(created) - listeners[i].since
        /\ \A j \in 1..Len(received[i]) :
               received[i][j] = created[listeners[i].since + j]
\* ---------------------------------------------------------- frame claims
ReadOps == {"generate", "snapshot_true", "snapshot_false", "generate_array"}
SameFields(r, q) ==
    /\ r.timestamp = q.timestamp
    /\ r.msg = q.msg
    /\ r.from = q.from
    /\ r.type = q.type
    /\ r.log = q.log

\* C17: a record in the buffer keeps its timestamp, message, source, severity
\* and formatted line until it is evicted: no record-creation call and no
\* snapshot, generate or generate_array call changes a field of a record
\* that is in the buffer.
RecordsImmutable ==
    [][/\ (last'.op \in CreateOps /\ created' # created) =>
              \E off \in {0, 1} :
                  /\ Len(logarr') = Len(logarr) - off + 1
                  /\ \A k \in 1..(Len(logarr') - 1) :
                         SameFields(logarr'[k], logarr[k + off])
       /\ last'.op \in ReadOps =>
              /\ Len(logarr') = Len(logarr)
              /\ \A k \in 1..Len(logarr) : SameFields(logarr'[k], logarr[k])]_vars
RecordsImmutableWitness ==
    /\ Len(created) = 2
    /\ Len(logarr) = 2
    /\ last.op = "snapshot_true"
    /\ SameFields(logarr[1], created[1])
    /\ logarr[1].type # logarr[2].type
\* The length the buffer can reach: maxStackSize + 1 for a positive
\* maxStackSize, 501 when it is unset or zero.
ReachedLength ==
    IF IsGiven(OptMaxStackSize(options)) /\ Value(OptMaxStackSize(options)) > 0
    THEN Value(OptMaxStackSize(options)) + 1
    ELSE 501

\* C18: the buffer never holds more than maxStackSize + 1 records (501 when
\* maxStackSize is unset or zero), and once it holds that many it holds
\* exactly that many after every further call.
LengthPlateau ==
    [][/\ Len(logarr') <= ReachedLength
       /\ Len(logarr) = ReachedLength => Len(logarr') = ReachedLength]_vars
LengthPlateauWitness ==
    /\ options = Absent
    /\ Len(created) = 503
    /\ Len(logarr) = 501
\* C19: a record-creation call never evicts the record it creates: whatever
\* the maxStackSize (0, 1 and negative included), after the call the buffer
\* is not empty and its last element is the record just created, the record
\* the subscribers were given and the line written to the console.
NeverEvictsOwnRecord ==
    Len(created) > 0 =>
        LET r == created[Len(created)]
        IN /\ Len(logarr) > 0
           /\ logarr[Len(logarr)] = r
           /\ console[Len(console)] = r.log
           /\ \A k \in 1..Len(notes) :
                  notes[k].call = Len(created) => notes[k].rec = logarr[Len(logarr)]
NeverEvictsOwnRecordWitness ==
    /\ OptMaxStackSize(options) = Given(-1)
    /\ Len(created) = 2
    /\ Len(logarr) = 1
    /\ Len(notes) >= 1
    /\ notes[Len(notes)].call = 2
    /\ created[1] # created[2]
\* C20: snapshot(true), snapshot(false), generate() and generate_array()
\* leave the logger as it is: a call of any of them changes neither the
\* content nor the order of the buffer, writes nothing to the console and
\* notifies no subscriber.
ReadsChangeNothing ==
    [][last'.op \in ReadOps =>
           /\ logarr' = logarr
           /\ console' = console
           /\ received' = received
           /\ notes' = notes
           /\ listeners' = listeners]_vars
ReadsChangeNothingWitness ==
    /\ last.op = "snapshot_false"
    /\ Len(logarr) = 2
    /\ Len(console) = 2
    /\ Len(listeners) >= 1
    /\ Len(received[1]) = 2
====
